---- MODULE Spec2Model ----
(***************************************************************************)
(* Model of the aggregation-merge-classify-rank pipeline of src/app.py     *)
(* (process_data, lines 76-140) and of the part of main/load_data that     *)
(* feeds it (lines 56-73, 511-514).                                        *)
(*                                                                         *)
(* Representation.                                                         *)
(*  - A Python string is a sequence of one-character strings, so that      *)
(*    str.strip and str.lower are computed, not assumed.                   *)
(*  - A cell of the stunting_balita column is a record [kind, s, x]:       *)
(*    kind "str" (text s), "float" (number x, after normalisation) or      *)
(*    "nan" (a cell read_csv found empty).                                 *)
(*  - A data frame is a sequence of rows; a column assignment on the       *)
(*    parameter (_df[...] = ...) changes the caller's frame, so df and gdf *)
(*    are state and process_data returns their new value with the table.   *)
(*  - mean_stunting is the exact fraction [num, den]; den = 0 is NaN.      *)
(*    mean_stunting_percent is kept in hundredths of a percent (an         *)
(*    integer), which is what round(2) leaves.                             *)
(*  - The polygon geometry itself is not modelled: dissolve is modelled by *)
(*    its effect on the key column.                                        *)
(***************************************************************************)
EXTENDS Integers, Sequences, FiniteSets, TLC

VARIABLES
    df,       \* the record collection the session holds (mutated in place)
    gdf,      \* the geometry collection the session holds (mutated in place)
    din,      \* value of _df at entry of the last process_data run
    gin,      \* value of _gdf at entry of the last process_data run
    df0,      \* the records as the source supplied them
    gdf0,     \* the features as the source supplied them
    out,      \* <<table>> returned by the last run, <<>> before any run
    prev,     \* <<table>> returned by the run before the last, else <<>>
    build,    \* which tie order the build's quicksort produces
    pc,       \* position of main() in the current script run
    csvOk,    \* data_stunting.csv can be read
    geoOk,    \* kecamatan_sidoarjo.geojson can be read
    loadCache,\* <<[df, gdf]>> memoized for load_data, <<>> when empty
    procCache,\* <<table>> memoized for process_data, <<>> when empty
    errors,   \* number of st.error messages of the current script run
    invoked,  \* process_data was called in the current script run
    shown     \* <<table>> handed to the presentation code, else <<>>

vars == <<df, gdf, din, gin, df0, gdf0, out, prev, build,
          pc, csvOk, geoOk, loadCache, procCache, errors, invoked, shown>>

appVars == <<pc, csvOk, geoOk, loadCache, procCache, errors, invoked, shown>>

----------------------------------------------------------------------------
(* Bounds of the model *)

\* records and features of an input of Spec
MaxRecords == 3
MaxFeatures == 3

\* records of the one region of an input of SpecRates
MaxSubjects == 20

\* characters of a flag text of SpecFlags
MaxFlagLen == 3

\* records of data_stunting.csv and features of kecamatan_sidoarjo.geojson
\* in SpecApp
MaxFileRecords == 2
MaxFileFeatures == 2

\* records of each of the two regions of an input of SpecRanks
MaxRankSubjects == 7

\* records and features of an argument of a call in SpecMemo
MaxCallRecords == 1
MaxCallFeatures == 1

----------------------------------------------------------------------------
(* Strings *)

Whitespace == {" "}

RECURSIVE lstrip(_)
lstrip(s) == IF s # <<>> /\ Head(s) \in Whitespace THEN lstrip(Tail(s)) ELSE s

RECURSIVE rstrip(_)
rstrip(s) ==
    IF s # <<>> /\ s[Len(s)] \in Whitespace
    THEN rstrip(SubSeq(s, 1, Len(s) - 1))
    ELSE s

\* str.strip(): leading and trailing whitespace removed
strip(s) == rstrip(lstrip(s))

lowerChar(c) ==
    CASE c = "A" -> "a"
      [] c = "B" -> "b"
      [] c = "D" -> "d"
      [] c = "I" -> "i"
      [] c = "K" -> "k"
      [] c = "T" -> "t"
      [] c = "Y" -> "y"
      [] OTHER   -> c

\* str.lower()
lower(s) == [i \in 1..Len(s) |-> lowerChar(s[i])]

\* code point order of the characters the model uses
ord(c) ==
    CASE c = " " -> 32
      [] c = "." -> 46
      [] c = "0" -> 48
      [] c = "1" -> 49
      [] c = "A" -> 65
      [] c = "B" -> 66
      [] c = "D" -> 68
      [] c = "I" -> 73
      [] c = "K" -> 75
      [] c = "T" -> 84
      [] c = "Y" -> 89
      [] c = "a" -> 97
      [] c = "b" -> 98
      [] c = "d" -> 100
      [] c = "i" -> 105
      [] c = "k" -> 107
      [] c = "m" -> 109
      [] c = "n" -> 110
      [] c = "t" -> 116
      [] c = "x" -> 120
      [] c = "y" -> 121
      [] OTHER   -> 127

\* Python's < on str
RECURSIVE strLess(_, _)
strLess(s, t) ==
    IF t = <<>> THEN FALSE
    ELSE IF s = <<>> THEN TRUE
    ELSE IF ord(Head(s)) # ord(Head(t)) THEN ord(Head(s)) < ord(Head(t))
    ELSE strLess(Tail(s), Tail(t))

\* the keys of a groupby, which sorts them (sort=True is the default)
RECURSIVE sortedKeys(_)
sortedKeys(S) ==
    IF S = {} THEN <<>>
    ELSE LET m == CHOOSE k \in S : \A o \in S \ {k} : strLess(k, o)
         IN  <<m>> \o sortedKeys(S \ {m})

----------------------------------------------------------------------------
(* Cells *)

Str(s)   == [kind |-> "str", s |-> s, x |-> 0]
Float(x) == [kind |-> "float", s |-> <<>>, x |-> x]
NaNCell  == [kind |-> "nan", s |-> <<>>, x |-> 0]

\* astype(str) of one cell
astype_str(v) ==
    CASE v.kind = "str"   -> v.s
      [] v.kind = "float" -> IF v.x = 1 THEN <<"1", ".", "0">> ELSE <<"0", ".", "0">>
      [] OTHER            -> <<"n", "a", "n">>

\* the dictionary of line 86
flagDict ==
    (<<"y", "a">> :> 1) @@ (<<"y">> :> 1) @@
    (<<"t", "i", "d", "a", "k">> :> 0) @@ (<<"t">> :> 0)

\* lines 85-88 without the lower()
normalizeFlagCaseSensitive(v) ==
    LET t == strip(astype_str(v))
    IN  Float(IF t \in DOMAIN flagDict THEN flagDict[t] ELSE 0)

\* lines 85-88 on one cell: astype(str).strip().lower(), map, fillna(0), float
normalizeFlag(v) ==
    LET t == lower(strip(astype_str(v)))
    IN  Float(IF t \in DOMAIN flagDict THEN flagDict[t] ELSE 0)

----------------------------------------------------------------------------
(* Numbers *)

\* NaN in an integer column of a merge result (no matching right row)
NaN == 0 - 1

\* NaN in mean_stunting
NaNMean == [num |-> 0, den |-> 0]

\* hundredths of a percent per percent: what round(2) keeps
Scale == 100

\* n/d rounded to the nearest integer, halves to even (numpy's round)
roundHalfEven(n, d) ==
    LET q == n \div d
        r == n % d
    IN  IF 2 * r < d THEN q
        ELSE IF 2 * r > d THEN q + 1
        ELSE IF q % 2 = 0 THEN q ELSE q + 1

\* line 110 with truncation in place of round
percentOfTruncated(mean) == (mean.num * 100 * Scale) \div mean.den

\* line 110: (mean_stunting * 100).round(2), in hundredths of a percent
percentOf(mean) == roundHalfEven(mean.num * 100 * Scale, mean.den)

----------------------------------------------------------------------------
(* process_data, stage by stage *)

\* line 81 without the strip
stripRecordNamesNoStrip(d) == d

\* line 81: _df["nama_kecamatan"] = ....str.strip()
stripRecordNames(d) ==
    [i \in 1..Len(d) |-> [d[i] EXCEPT !.nama_kecamatan = strip(@)]]

\* line 82: _gdf["WADMKC"] = ....str.strip()
stripFeatureNames(g) ==
    [i \in 1..Len(g) |-> [g[i] EXCEPT !.WADMKC = strip(@)]]

\* lines 85-88: _df["stunting_balita"] = normalised flag
normalizeFlags(d) ==
    [i \in 1..Len(d) |-> [d[i] EXCEPT !.stunting_balita = normalizeFlag(@)]]

\* line 91 without the dissolve: one row per raw feature
dissolveKeepParts(g) == [i \in 1..Len(g) |-> [WADMKC |-> g[i].WADMKC]]

\* line 91: one feature per key, keys sorted
dissolve(g) ==
    LET keys == sortedKeys({g[i].WADMKC : i \in 1..Len(g)})
    IN  [i \in 1..Len(keys) |-> [WADMKC |-> keys[i]]]

RECURSIVE sumFlags(_, _)
sumFlags(d, k) ==
    IF d = <<>> THEN 0
    ELSE (IF Head(d).nama_kecamatan = k THEN Head(d).stunting_balita.x ELSE 0)
         + sumFlags(Tail(d), k)

countFlags(d, k) == Cardinality({i \in 1..Len(d) : d[i].nama_kecamatan = k})

\* lines 94-99: groupby(nama_kecamatan).agg(mean, sum, count), key renamed
aggregate(d) ==
    LET keys == sortedKeys({d[i].nama_kecamatan : i \in 1..Len(d)})
    IN  [i \in 1..Len(keys) |->
            [WADMKC          |-> keys[i],
             mean_stunting   |-> [num |-> sumFlags(d, keys[i]),
                                  den |-> countFlags(d, keys[i])],
             jumlah_stunting |-> sumFlags(d, keys[i]),
             jumlah_balita   |-> countFlags(d, keys[i])]]

\* the rows a left row yields in a left join: one per match, else one of NaN
joinStats(l, right) ==
    LET m == SelectSeq(right, LAMBDA r : r.WADMKC = l.WADMKC)
    IN  IF m = <<>>
        THEN <<[WADMKC |-> l.WADMKC, mean_stunting |-> NaNMean,
                jumlah_stunting |-> NaN, jumlah_balita |-> NaN]>>
        ELSE m

\* line 102: gdf_kec.merge(agg_data, on="WADMKC", how="left")
RECURSIVE mergeStats(_, _)
mergeStats(left, right) ==
    IF left = <<>> THEN <<>>
    ELSE joinStats(Head(left), right) \o mergeStats(Tail(left), right)

\* line 105 alone: the two counts keep their NaN
fillStatsMeanOnly(m) ==
    [i \in 1..Len(m) |->
        [m[i] EXCEPT
            !.mean_stunting = IF @.den = 0 THEN [num |-> 0, den |-> 1] ELSE @]]

\* lines 105-107: fillna(0) on the three statistics
fillStats(m) ==
    [i \in 1..Len(m) |->
        [m[i] EXCEPT
            !.mean_stunting   = IF @.den = 0 THEN [num |-> 0, den |-> 1] ELSE @,
            !.jumlah_balita   = IF @ = NaN THEN 0 ELSE @,
            !.jumlah_stunting = IF @ = NaN THEN 0 ELSE @]]

\* lines 113-121 with <= at the first threshold
categorizeClosedLow(percent) ==
    IF percent = 0 THEN <<"Tidak Ada Data", "#94a3b8">>
    ELSE IF percent <= 20 * Scale THEN <<"Rendah", "#22c55e">>
    ELSE IF percent < 30 * Scale THEN <<"Sedang", "#eab308">>
    ELSE <<"Tinggi", "#ef4444">>

\* lines 113-121, percent in hundredths of a percent
categorize(percent) ==
    IF percent = 0 THEN <<"Tidak Ada Data", "#94a3b8">>
    ELSE IF percent < 20 * Scale THEN <<"Rendah", "#22c55e">>
    ELSE IF percent < 30 * Scale THEN <<"Sedang", "#eab308">>
    ELSE <<"Tinggi", "#ef4444">>

\* lines 575-592: the category and color pairs of the map legend
legend ==
    {<<"Rendah", "#22c55e">>, <<"Sedang", "#eab308">>,
     <<"Tinggi", "#ef4444">>, <<"Tidak Ada Data", "#94a3b8">>}

\* lines 110 and 123-125: the percent, category and color columns
classify(m) ==
    [i \in 1..Len(m) |->
        LET p == percentOf(m[i].mean_stunting)
        IN  [WADMKC                |-> m[i].WADMKC,
             mean_stunting         |-> m[i].mean_stunting,
             jumlah_stunting       |-> m[i].jumlah_stunting,
             jumlah_balita         |-> m[i].jumlah_balita,
             mean_stunting_percent |-> p,
             category              |-> categorize(p)[1],
             color                 |-> categorize(p)[2]]]

\* line 129 without ascending=False
pickNextAscending(rows, b) ==
    LET low == {i \in 1..Len(rows) :
                   \A j \in 1..Len(rows) :
                       rows[j].mean_stunting_percent >= rows[i].mean_stunting_percent}
    IN  CHOOSE i \in low : \A j \in low : i <= j

\* the index sort_values takes next: a row of the largest percent; among
\* equal percents the default kind (quicksort) promises no order, so the
\* build decides: "stable" takes the first of them, "unstable" the last
pickNext(rows, b) ==
    LET top == {i \in 1..Len(rows) :
                   \A j \in 1..Len(rows) :
                       rows[j].mean_stunting_percent <= rows[i].mean_stunting_percent}
    IN  IF b = "stable"
        THEN CHOOSE i \in top : \A j \in top : i <= j
        ELSE CHOOSE i \in top : \A j \in top : i >= j

dropAt(rows, i) == SubSeq(rows, 1, i - 1) \o SubSeq(rows, i + 1, Len(rows))

\* line 129: sort_values("mean_stunting_percent", ascending=False)
RECURSIVE sort_values(_, _)
sort_values(rows, b) ==
    IF rows = <<>> THEN <<>>
    ELSE LET i == pickNext(rows, b)
         IN  <<rows[i]>> \o sort_values(dropAt(rows, i), b)

\* lines 128-130 numbered with range(len(...)): from 0
rankTableFromZero(m, b) ==
    LET s == sort_values(SelectSeq(m, LAMBDA r : r.mean_stunting_percent > 0), b)
    IN  [i \in 1..Len(s) |-> [WADMKC |-> s[i].WADMKC, rank |-> i - 1]]

\* lines 128-130 with the rows chosen by jumlah_balita > 0
rankTableByRecords(m, b) ==
    LET s == sort_values(SelectSeq(m, LAMBDA r : r.jumlah_balita > 0), b)
    IN  [i \in 1..Len(s) |-> [WADMKC |-> s[i].WADMKC, rank |-> i]]

\* lines 128-130: the rows with data, sorted, numbered from 1
rankTable(m, b) ==
    LET s == sort_values(SelectSeq(m, LAMBDA r : r.mean_stunting_percent > 0), b)
    IN  [i \in 1..Len(s) |-> [WADMKC |-> s[i].WADMKC, rank |-> i]]

addRank(l, k) ==
    [WADMKC                |-> l.WADMKC,
     mean_stunting         |-> l.mean_stunting,
     jumlah_stunting       |-> l.jumlah_stunting,
     jumlah_balita         |-> l.jumlah_balita,
     mean_stunting_percent |-> l.mean_stunting_percent,
     category              |-> l.category,
     color                 |-> l.color,
     rank                  |-> k]

joinRank(l, right) ==
    LET m == SelectSeq(right, LAMBDA r : r.WADMKC = l.WADMKC)
    IN  IF m = <<>> THEN <<addRank(l, NaN)>>
        ELSE [i \in 1..Len(m) |-> addRank(l, m[i].rank)]

\* lines 133-137: merged.merge(ranks, on="WADMKC", how="left")
RECURSIVE mergeRank(_, _)
mergeRank(left, right) ==
    IF left = <<>> THEN <<>>
    ELSE joinRank(Head(left), right) \o mergeRank(Tail(left), right)

\* line 138: rank.fillna(0).astype(int)
fillRank(m) ==
    [i \in 1..Len(m) |-> [m[i] EXCEPT !.rank = IF @ = NaN THEN 0 ELSE @]]

\* line 183: the popup of a region carries a ranking line
showsRanking(row) == row.rank > 0

\* lines 77-140: the frames as the call leaves them, and the returned table
process_data(d, g, b) ==
    LET d1  == normalizeFlags(stripRecordNames(d))
        g1  == stripFeatureNames(g)
        m   == classify(fillStats(mergeStats(dissolve(g1), aggregate(d1))))
    IN  [df     |-> d1,
         gdf    |-> g1,
         merged |-> fillRank(mergeRank(m, rankTable(m, b)))]

----------------------------------------------------------------------------
(* Inputs *)

sYa    == <<"Y", "a">>
sTidak == <<"T", "i", "d", "a", "k">>
sMaybe == <<"m", "a", "y", "b", "e">>

RecordNames  == {<<" ", "A", " ">>, <<"a">>}
FeatureNames == {<<"A", " ">>, <<"a">>, <<"B">>}
RecordFlags  == {Str(sYa), Str(sTidak)}

Records  == [nama_kecamatan : RecordNames, stunting_balita : RecordFlags]
Features == [WADMKC : FeatureNames]

SeqsUpTo(S, n) == UNION {[1..k -> S] : k \in 0..n}

Builds == {"stable", "unstable"}

----------------------------------------------------------------------------
(* The pipeline run on a pair of collections *)

\* main() is not running: the pipeline is called directly
appIdle ==
    /\ pc = "idle"
    /\ csvOk = TRUE
    /\ geoOk = TRUE
    /\ loadCache = <<>>
    /\ procCache = <<>>
    /\ errors = 0
    /\ invoked = FALSE
    /\ shown = <<>>

\* the caller holds the collections as supplied; nothing has run
pipeStart ==
    /\ df = df0
    /\ gdf = gdf0
    /\ din = <<>>
    /\ gin = <<>>
    /\ out = <<>>
    /\ prev = <<>>
    /\ build \in Builds

Init ==
    /\ df0 \in SeqsUpTo(Records, MaxRecords)
    /\ gdf0 \in SeqsUpTo(Features, MaxFeatures)
    /\ pipeStart
    /\ appIdle

\* process_data(df, gdf) on the collections the caller holds
RunSame ==
    /\ pc = "idle"
    /\ \E r \in {process_data(df, gdf, build)} :
           /\ din' = df
           /\ gin' = gdf
           /\ df' = r.df
           /\ gdf' = r.gdf
           /\ out' = <<r.merged>>
           /\ prev' = out
    /\ UNCHANGED <<df0, gdf0, build, appVars>>

\* process_data on fresh collections equal to the ones first supplied
RunFresh ==
    /\ pc = "idle"
    /\ out # <<>>
    /\ \E r \in {process_data(df0, gdf0, build)} :
           /\ din' = df0
           /\ gin' = gdf0
           /\ df' = r.df
           /\ gdf' = r.gdf
           /\ out' = <<r.merged>>
           /\ prev' = out
    /\ UNCHANGED <<df0, gdf0, build, appVars>>

Next == RunSame \/ RunFresh

Spec == Init /\ [][Next]_vars

----------------------------------------------------------------------------
(* What the claims speak of, stated without the operators of the model *)

\* s without its leading and trailing blanks
Trimmed(s) ==
    LET keep == {i \in 1..Len(s) : s[i] # " "}
    IN  IF keep = {} THEN <<>>
        ELSE SubSeq(s, CHOOSE i \in keep : \A j \in keep : i <= j,
                       CHOOSE i \in keep : \A j \in keep : i >= j)

Fold == ("A" :> "a") @@ ("B" :> "b") @@ ("D" :> "d") @@ ("I" :> "i") @@
        ("K" :> "k") @@ ("T" :> "t") @@ ("Y" :> "y")

\* s in lower case
Folded(s) == [i \in 1..Len(s) |-> IF s[i] \in DOMAIN Fold THEN Fold[s[i]] ELSE s[i]]

AffirmativeSet == {<<"y", "a">>, <<"y">>}
NegativeSet    == {<<"t", "i", "d", "a", "k">>, <<"t">>}

\* the cell is a text that trims and folds to an affirmative value
Affirmative(v) == v.kind = "str" /\ Folded(Trimmed(v.s)) \in AffirmativeSet

\* the table of the last run
Table == out[1]

RowsOf(name) == {i \in 1..Len(Table) : Table[i].WADMKC = name}

\* the records given to the last run that belong to a region
RecordsOf(name) == {i \in 1..Len(din) : Trimmed(din[i].nama_kecamatan) = name}

CasesOf(name) == {i \in RecordsOf(name) : Affirmative(din[i].stunting_balita)}

GeometryNames == {Trimmed(gin[i].WADMKC) : i \in 1..Len(gin)}

Ranked == {i \in 1..Len(Table) : Table[i].mean_stunting_percent > 0}

----------------------------------------------------------------------------
(* Claims on the pipeline (specification Spec) *)

\* C1: the returned table has exactly one row per distinct trimmed region
\* name of the geometry features: none missing, none twice, and no row for
\* a name that occurs only in the records.
C1_OneRowPerGeometryRegion ==
    out # <<>> =>
        /\ \A name \in GeometryNames : Cardinality(RowsOf(name)) = 1
        /\ \A i \in 1..Len(Table) : Table[i].WADMKC \in GeometryNames

\* C1 witness: two features of an untrimmed name dissolve into one region,
\* a record names a region the geometry lacks, and a rank was merged back.
C1_Witness ==
    /\ out # <<>>
    /\ \E i, j \in 1..Len(gin) :
          /\ i # j
          /\ gin[i].WADMKC # Trimmed(gin[i].WADMKC)
          /\ Trimmed(gin[i].WADMKC) = Trimmed(gin[j].WADMKC)
    /\ \E i \in 1..Len(din) : Trimmed(din[i].nama_kecamatan) \notin GeometryNames
    /\ \E i \in 1..Len(Table) : Table[i].rank > 0

\* C2: subject_count (jumlah_balita) is the number of input records of the
\* row's region, case_count (jumlah_stunting) the number of those whose flag
\* is affirmative; a region without records has 0, 0 and a mean of 0.
C2_CountsMatchRecords ==
    out # <<>> =>
        \A i \in 1..Len(Table) :
            LET t == Table[i]
            IN  /\ t.jumlah_balita = Cardinality(RecordsOf(t.WADMKC))
                /\ t.jumlah_stunting = Cardinality(CasesOf(t.WADMKC))
                /\ RecordsOf(t.WADMKC) = {} =>
                      /\ t.jumlah_balita = 0
                      /\ t.jumlah_stunting = 0
                      /\ t.mean_stunting.num = 0
                      /\ t.mean_stunting.den = 1

\* C2 witness: the scenario of the specification plus an unmatched record:
\* a region with two records of which one is a case, a region with no
\* record, and a record of a region the geometry lacks.
C2_Witness ==
    /\ out # <<>>
    /\ \E i \in 1..Len(Table) :
          Table[i].jumlah_balita = 2 /\ Table[i].jumlah_stunting = 1
    /\ \E i \in 1..Len(Table) : Table[i].jumlah_balita = 0
    /\ \E i \in 1..Len(din) : Trimmed(din[i].nama_kecamatan) \notin GeometryNames

\* C3: rate_percent (mean_stunting_percent) lies in [0, 100]; it is
\* case_count / subject_count * 100 rounded to two decimals (halves to even)
\* when subject_count > 0, and 0 when subject_count = 0.
C3_PercentIsRoundedRate ==
    out # <<>> =>
        \A i \in 1..Len(Table) :
            LET t == Table[i]
                p == t.mean_stunting_percent
                n == t.jumlah_stunting * 100 * Scale
                d == t.jumlah_balita
                e == IF p * d >= n THEN p * d - n ELSE n - p * d
            IN  /\ p \in 0..(100 * Scale)
                /\ d = 0 => p = 0
                /\ d > 0 => \/ 2 * e < d
                            \/ 2 * e = d /\ p % 2 = 0

\* C3 witness: a rate that needs rounding up (2 of 3) and a region without
\* records in one table.
C3_Witness ==
    /\ out # <<>>
    /\ \E i \in 1..Len(Table) :
          Table[i].jumlah_balita = 3 /\ Table[i].jumlah_stunting = 2
    /\ \E i \in 1..Len(Table) : Table[i].jumlah_balita = 0

\* C5: the rows with rate_percent > 0 carry pairwise distinct ranks that
\* form exactly 1..K, K the number of such rows; every row with
\* rate_percent = 0 has rank 0.
C5_RanksAreOneToK ==
    out # <<>> =>
        /\ \A i, j \in Ranked : i # j => Table[i].rank # Table[j].rank
        /\ {Table[i].rank : i \in Ranked} = 1..Cardinality(Ranked)
        /\ \A i \in 1..Len(Table) : i \notin Ranked => Table[i].rank = 0

\* C5 witness: two ranked rows and an unranked one.
C5_Witness ==
    /\ out # <<>>
    /\ Cardinality(Ranked) >= 2
    /\ Len(Table) > Cardinality(Ranked)

\* C6 as claimed: ranks follow a stable descending sort: rank(a) < rank(b)
\* exactly when a's percent is larger, or the percents are equal and a
\* precedes b in the merged table.
C6_RanksFollowStableSort ==
    out # <<>> =>
        \A i, j \in Ranked :
            i # j =>
                (Table[i].rank < Table[j].rank <=>
                    \/ Table[i].mean_stunting_percent > Table[j].mean_stunting_percent
                    \/ /\ Table[i].mean_stunting_percent = Table[j].mean_stunting_percent
                       /\ i < j)

\* C6 as amended: ranks follow a descending sort by rate_percent: a ranked
\* region with a larger percent has the smaller rank; the order among equal
\* percents is not determined.
C6_RanksFollowDescendingPercent ==
    out # <<>> =>
        \A i, j \in Ranked :
            Table[i].mean_stunting_percent > Table[j].mean_stunting_percent
                => Table[i].rank < Table[j].rank

\* C6 witness: two ranked regions of different percent, the later row of
\* the table having the larger one.
C6_Witness ==
    /\ out # <<>>
    /\ \E i, j \in Ranked :
          /\ i < j
          /\ Table[i].mean_stunting_percent < Table[j].mean_stunting_percent
          /\ Table[j].rank = 1

\* C7: a run on inputs identical to those of the run before, the same
\* collections included, returns the table the run before returned.
C7_SecondRunSameTable ==
    prev # <<>> => out = prev

\* C8: region names join after trimming on both sides and are otherwise
\* compared literally: the row of a geometry region counts the records whose
\* trimmed name equals its trimmed name, and none that differs in case.
C8_JoinOnTrimmedNames ==
    out # <<>> =>
        \A g \in 1..Len(gin) :
            LET name == Trimmed(gin[g].WADMKC)
                same == {i \in 1..Len(din) : Trimmed(din[i].nama_kecamatan) = name}
                othercase == {i \in 1..Len(din) :
                                 /\ Trimmed(din[i].nama_kecamatan) # name
                                 /\ Folded(Trimmed(din[i].nama_kecamatan)) = Folded(name)}
            IN  \E r \in RowsOf(name) :
                    /\ Table[r].jumlah_balita = Cardinality(same)
                    /\ Table[r].jumlah_balita <= Len(din) - Cardinality(othercase)

\* C8 witness: a record and a feature whose raw names differ only by blanks
\* are joined, and a record that differs in case is in the input and is not
\* counted in that row.
C8_Witness ==
    /\ out # <<>>
    /\ \E g \in 1..Len(gin), i, j \in 1..Len(din) :
          /\ din[i].nama_kecamatan # gin[g].WADMKC
          /\ Trimmed(din[i].nama_kecamatan) = Trimmed(gin[g].WADMKC)
          /\ Trimmed(din[j].nama_kecamatan) # Trimmed(gin[g].WADMKC)
          /\ Folded(Trimmed(din[j].nama_kecamatan)) = Folded(Trimmed(gin[g].WADMKC))
          /\ \E r \in RowsOf(Trimmed(gin[g].WADMKC)) : Table[r].jumlah_balita = 1

----------------------------------------------------------------------------
(* The pipeline on one region with k cases among n subjects (SpecRates):   *)
(* the inputs that reach every category and both thresholds                *)

nameA == <<"A">>

\* n records of region A, the first k of them cases
Subjects(n, k) ==
    [i \in 1..n |-> [nama_kecamatan  |-> nameA,
                     stunting_balita |-> IF i <= k THEN Str(sYa) ELSE Str(sTidak)]]

InitRates ==
    /\ \E n \in 0..MaxSubjects : \E k \in 0..n : df0 = Subjects(n, k)
    /\ gdf0 = <<[WADMKC |-> nameA]>>
    /\ pipeStart
    /\ appIdle

SpecRates == InitRates /\ [][Next]_vars

----------------------------------------------------------------------------
(* The pipeline on one record of every flag text (SpecFlags)               *)

FlagChars == {" ", "Y", "y", "a", "T", "t", "x"}

FlagCells ==
    {Str(s) : s \in SeqsUpTo(FlagChars, MaxFlagLen)}
        \cup {Str(sYa), Str(sTidak), Str(sMaybe), NaNCell,
              Str(<<" ", "T", "I", "D", "A", "K", " ">>),
              Str(<<"t", "i", "d", "a", "k">>),
              Str(<<"1", ".", "0">>)}

InitFlags ==
    /\ \E v \in FlagCells :
          df0 = <<[nama_kecamatan |-> nameA, stunting_balita |-> v]>>
    /\ gdf0 = <<[WADMKC |-> nameA]>>
    /\ pipeStart
    /\ appIdle

SpecFlags == InitFlags /\ [][Next]_vars

\* the text of a cell as the claim reads it: a missing cell has none of the
\* recognised texts, a number is not a text of either set
Recognised(v, set) == v.kind = "str" /\ Folded(Trimmed(v.s)) \in set

\* C9: flag normalisation never fails: trimmed and lowercased, a value of
\* the affirmative set becomes 1.0, one of the negative set 0.0, any other
\* value, empty or missing included, 0.0; a record with an unrecognised flag
\* is counted in subject_count and not in case_count.
C9_FlagNormalization ==
    out # <<>> =>
        /\ Len(df) = Len(din)
        /\ \A i \in 1..Len(din) :
              LET v == din[i].stunting_balita
                  w == df[i].stunting_balita
              IN  /\ w.kind = "float"
                  /\ Recognised(v, AffirmativeSet) => w.x = 1
                  /\ Recognised(v, NegativeSet) => w.x = 0
                  /\ (~Recognised(v, AffirmativeSet) /\ ~Recognised(v, NegativeSet))
                        => w.x = 0
        /\ \A r \in 1..Len(Table) :
              LET mine == {i \in 1..Len(din) :
                              Trimmed(din[i].nama_kecamatan) = Table[r].WADMKC}
                  unrec == {i \in mine :
                              /\ ~Recognised(din[i].stunting_balita, AffirmativeSet)
                              /\ ~Recognised(din[i].stunting_balita, NegativeSet)}
              IN  /\ Table[r].jumlah_balita = Cardinality(mine)
                  /\ Table[r].jumlah_stunting <= Cardinality(mine) - Cardinality(unrec)

\* C9 witness: a record whose flag needs trimming and lowercasing to be
\* affirmative was counted as a case.
C9_Witness ==
    /\ out # <<>>
    /\ Len(din) = 1
    /\ din[1].stunting_balita = Str(<<" ", "Y", "a">>)
    /\ df[1].stunting_balita = Float(1)
    /\ Table[1].jumlah_stunting = 1

----------------------------------------------------------------------------
(* The script run: main() loads, processes and renders (SpecApp)           *)

InitApp ==
    /\ df0 \in SeqsUpTo(Records, MaxFileRecords)
    /\ gdf0 \in SeqsUpTo(Features, MaxFileFeatures)
    /\ df = <<>>
    /\ gdf = <<>>
    /\ din = <<>>
    /\ gin = <<>>
    /\ out = <<>>
    /\ prev = <<>>
    /\ build \in Builds
    /\ pc = "load"
    /\ csvOk \in BOOLEAN
    /\ geoOk \in BOOLEAN
    /\ loadCache = <<>>
    /\ procCache = <<>>
    /\ errors = 0
    /\ invoked = FALSE
    /\ shown = <<>>

\* line 513, load_data memoized: the stored pair is handed out as a copy
LoadDataCached ==
    /\ pc = "load"
    /\ loadCache # <<>>
    /\ df' = loadCache[1].df
    /\ gdf' = loadCache[1].gdf
    /\ pc' = "process"
    /\ UNCHANGED <<din, gin, df0, gdf0, out, prev, build, csvOk, geoOk,
                   loadCache, procCache, errors, invoked, shown>>

\* lines 59-66: both files are read; the pair is stored and returned
LoadDataRead ==
    /\ pc = "load"
    /\ loadCache = <<>>
    /\ csvOk
    /\ geoOk
    /\ df' = df0
    /\ gdf' = gdf0
    /\ loadCache' = <<[df |-> df0, gdf |-> gdf0]>>
    /\ pc' = "process"
    /\ UNCHANGED <<din, gin, df0, gdf0, out, prev, build, csvOk, geoOk,
                   procCache, errors, invoked, shown>>

\* lines 67-73 with the st.stop() calls left out: the function falls off
\* its end and main goes on to process_data
LoadDataFailNoStop ==
    /\ pc = "load"
    /\ loadCache = <<>>
    /\ ~(csvOk /\ geoOk)
    /\ errors' = errors + 1
    /\ pc' = "process"
    /\ UNCHANGED <<df, gdf, din, gin, df0, gdf0, out, prev, build, csvOk, geoOk,
                   loadCache, procCache, invoked, shown>>

\* lines 67-73: read_csv raises FileNotFoundError, or read_file raises; both
\* handlers report with st.error and end the script run with st.stop();
\* nothing is stored in the cache
LoadDataFail ==
    /\ pc = "load"
    /\ loadCache = <<>>
    /\ ~(csvOk /\ geoOk)
    /\ errors' = errors + 1
    /\ pc' = "stopped"
    /\ UNCHANGED <<df, gdf, din, gin, df0, gdf0, out, prev, build, csvOk, geoOk,
                   loadCache, procCache, invoked, shown>>

\* line 514 when process_data has a memoized table: the body does not run
ProcessDataCached ==
    /\ pc = "process"
    /\ procCache # <<>>
    /\ invoked' = TRUE
    /\ prev' = out
    /\ out' = procCache
    /\ pc' = "render"
    /\ UNCHANGED <<df, gdf, din, gin, df0, gdf0, build, csvOk, geoOk,
                   loadCache, procCache, errors, shown>>

\* line 514 when it has none: the body runs on the loaded collections
ProcessDataRun ==
    /\ pc = "process"
    /\ procCache = <<>>
    /\ \E r \in {process_data(df, gdf, build)} :
           /\ din' = df
           /\ gin' = gdf
           /\ df' = r.df
           /\ gdf' = r.gdf
           /\ out' = <<r.merged>>
           /\ procCache' = <<r.merged>>
    /\ invoked' = TRUE
    /\ prev' = out
    /\ pc' = "render"
    /\ UNCHANGED <<df0, gdf0, build, csvOk, geoOk, loadCache, errors, shown>>

\* lines 516 onward: the metrics, map, charts and table read merged_gdf
Render ==
    /\ pc = "render"
    /\ shown' = out
    /\ pc' = "done"
    /\ UNCHANGED <<df, gdf, din, gin, df0, gdf0, out, prev, build, csvOk, geoOk,
                   loadCache, procCache, errors, invoked>>

\* the script runs again from its top (a widget event or a page reload)
Rerun ==
    /\ pc \in {"done", "stopped"}
    /\ pc' = "load"
    /\ errors' = 0
    /\ invoked' = FALSE
    /\ shown' = <<>>
    /\ UNCHANGED <<df, gdf, din, gin, df0, gdf0, out, prev, build, csvOk, geoOk,
                   loadCache, procCache>>

\* between script runs a file is removed or put back
FilesChange ==
    /\ pc \in {"done", "stopped"}
    /\ \E c, g \in BOOLEAN :
          /\ <<c, g>> # <<csvOk, geoOk>>
          /\ csvOk' = c
          /\ geoOk' = g
    /\ UNCHANGED <<df, gdf, din, gin, df0, gdf0, out, prev, build, pc,
                   loadCache, procCache, errors, invoked, shown>>

\* between script runs the memoized values are dropped (st.cache_data keeps
\* them until they are cleared)
ClearCache ==
    /\ pc \in {"done", "stopped"}
    /\ loadCache # <<>> \/ procCache # <<>>
    /\ loadCache' = <<>>
    /\ procCache' = <<>>
    /\ UNCHANGED <<df, gdf, din, gin, df0, gdf0, out, prev, build, pc,
                   csvOk, geoOk, errors, invoked, shown>>

NextApp ==
    \/ LoadDataCached
    \/ LoadDataRead
    \/ LoadDataFail
    \/ ProcessDataCached
    \/ ProcessDataRun
    \/ Render
    \/ Rerun
    \/ FilesChange
    \/ ClearCache

SpecApp == InitApp /\ [][NextApp]_vars

\* the names the geometry file holds
FileGeometryNames == {Trimmed(gdf0[i].WADMKC) : i \in 1..Len(gdf0)}

\* a table with one row for each region of the geometry file
Complete(t) ==
    /\ {t[i].WADMKC : i \in 1..Len(t)} = FileGeometryNames
    /\ Len(t) = Cardinality(FileGeometryNames)

\* load_data has to read the files and one of them cannot be read
SourceFails == pc = "load" /\ loadCache = <<>> /\ ~(csvOk /\ geoOk)

\* C10: when the record source or the geometry source cannot supply its
\* data, the run reports a failure and stops before any aggregation:
\* process_data is not invoked and no table reaches the presentation code;
\* otherwise the run returns a complete table.
C10_FailFastOrCompleteTable ==
    /\ [](pc = "stopped" => (errors > 0 /\ ~invoked /\ shown = <<>>))
    /\ [](errors > 0 => pc = "stopped")
    /\ [](pc = "done" => (shown # <<>> /\ Complete(shown[1])))
    /\ [][(SourceFails /\ pc' # pc) => pc' = "stopped"]_vars
    /\ [][(pc = "load" /\ ~SourceFails /\ pc' # pc) => pc' = "process"]_vars

\* C10 witness: a run stopped on a missing geometry file after an earlier
\* run of the session had produced a table.
C10_Witness ==
    /\ pc = "stopped"
    /\ csvOk
    /\ ~geoOk
    /\ errors = 1
    /\ out # <<>>
    /\ shown = <<>>

----------------------------------------------------------------------------
(* Calls of the memoized process_data with any arguments (SpecMemo)        *)

\* the arguments of a call: any records, and at least one feature
CallRecords  == SeqsUpTo(Records, MaxCallRecords)
CallFeatures == SeqsUpTo(Features, MaxCallFeatures) \ {<<>>}

\* no collection has been loaded and nothing has been called
InitMemo ==
    /\ df0 = <<>>
    /\ gdf0 = <<>>
    /\ pipeStart
    /\ appIdle

\* lines 76-77, no entry stored: the parameters are named _df and _gdf, and
\* st.cache_data leaves a parameter whose name starts with an underscore out
\* of the cache key; the body runs on the arguments and its table is stored
CallMiss ==
    /\ pc = "idle"
    /\ procCache = <<>>
    /\ \E d \in CallRecords, g \in CallFeatures :
          \E r \in {process_data(d, g, build)} :
              /\ df0' = d
              /\ gdf0' = g
              /\ din' = d
              /\ gin' = g
              /\ df' = r.df
              /\ gdf' = r.gdf
              /\ out' = <<r.merged>>
              /\ procCache' = <<r.merged>>
    /\ prev' = out
    /\ UNCHANGED <<build, pc, csvOk, geoOk, loadCache, errors, invoked, shown>>

\* lines 76-77, an entry stored: the key holds no argument, so the entry
\* answers the call whatever the arguments are; the body does not run and
\* the arguments stay as the caller passed them
CallHit ==
    /\ pc = "idle"
    /\ procCache # <<>>
    /\ \E d \in CallRecords, g \in CallFeatures :
          /\ df0' = d
          /\ gdf0' = g
          /\ din' = d
          /\ gin' = g
          /\ df' = d
          /\ gdf' = g
    /\ out' = procCache
    /\ prev' = out
    /\ UNCHANGED <<build, pc, csvOk, geoOk, loadCache, procCache, errors,
                   invoked, shown>>

NextMemo == CallMiss \/ CallHit

SpecMemo == InitMemo /\ [][NextMemo]_vars

\* C11: the cache around process_data is keyed by the two input
\* collections: the table a call returns for an input pair is the table a
\* fresh computation on that pair produces, so a call with other inputs
\* never receives a table computed from earlier inputs.
C11_CachedTableIsFreshTable ==
    out # <<>> => out[1] = process_data(din, gin, build).merged

----------------------------------------------------------------------------
(* Further claims on the pipeline (specification Spec) *)

\* C12: process_data is side-effect free: after a run the record collection
\* and the geometry collection passed to it hold the values they held
\* before the call (region names and outcome flags unchanged).
C12_InputsUnchanged ==
    out # <<>> => (df = din /\ gdf = gin)

----------------------------------------------------------------------------
(* The pipeline on two regions of k cases among n subjects each and a      *)
(* third region without records (SpecRanks): tables whose ranked rows      *)
(* reach every category                                                    *)

nameLowerA == <<"a">>
nameB      == <<"B">>

\* n records of a region, the first k of them cases
SubjectsOf(name, n, k) ==
    [i \in 1..n |-> [nama_kecamatan  |-> name,
                     stunting_balita |-> IF i <= k THEN Str(sYa) ELSE Str(sTidak)]]

InitRanks ==
    /\ \E n, m \in 0..MaxRankSubjects : \E k \in 0..n, j \in 0..m :
          df0 = SubjectsOf(nameA, n, k) \o SubjectsOf(nameLowerA, m, j)
    /\ gdf0 = <<[WADMKC |-> nameA], [WADMKC |-> nameLowerA], [WADMKC |-> nameB]>>
    /\ pipeStart
    /\ appIdle

SpecRanks == InitRanks /\ [][Next]_vars

Classified == {"Rendah", "Sedang", "Tinggi"}

\* C13: rank and category agree on which regions are unranked: a row has
\* rank 0 exactly when its category is "Tidak Ada Data" (No Data) and rank
\* >= 1 exactly when its category is Rendah, Sedang or Tinggi (Low, Medium,
\* High), so the popup shows a ranking line exactly for classified regions.
C13_RankAgreesWithCategory ==
    out # <<>> =>
        \A i \in 1..Len(Table) :
            LET t == Table[i]
            IN  /\ t.rank = 0 <=> t.category = "Tidak Ada Data"
                /\ t.rank >= 1 <=> t.category \in Classified
                /\ showsRanking(t) <=> t.category \in Classified

\* C13 witness: one table with a Sedang row of rank 1, a Rendah row of rank
\* 2 and an unranked "Tidak Ada Data" row.
C13_Witness ==
    /\ out # <<>>
    /\ \E i, j, k \in 1..Len(Table) :
          /\ Table[i].category = "Rendah" /\ Table[i].rank = 2
          /\ Table[j].category = "Sedang" /\ Table[j].rank = 1
          /\ Table[k].category = "Tidak Ada Data" /\ Table[k].rank = 0

====
